---- MODULE Spec2Model ----
(***************************************************************************)
(* Model of docs/assets/sidebar.js: the sidebar tab controller, the mobile *)
(* menu controller, the mobile search controller and the bottom-nav search *)
(* trigger, run by the page's single-threaded event loop.                  *)
(*                                                                         *)
(* One action is one task of the event loop: a page load (init()), a DOM   *)
(* event handler, a timer callback, or the settlement of the index fetch.  *)
(* Time is counted in ticks of TickMs milliseconds; a timer set with delay *)
(* d becomes due d/TickMs ticks later and fires at any moment after that.  *)
(***************************************************************************)
EXTENDS Naturals, Sequences, FiniteSets

\* ------------------------------------------------------------------ bounds
\* most link-click close timers pending at once
MaxLinkTimers == 2
\* most focus timers pending at once
MaxFocusTimers == 1
\* length of a tick of the clock, in milliseconds
TickMs == 50

\* ------------------------------------------------------- program constants
STORAGE_KEY == "memex-sidebar-tab"
\* setTimeout(closeMenu, 100)
LinkCloseDelay == 100
\* resizeTimer = setTimeout(..., 100)
ResizeDelay == 100
\* debounceTimer = setTimeout(..., 150)
DebounceDelay == 150
\* setTimeout(() => searchInput.focus(), 100)
FocusDelay == 100
\* window.innerWidth > 768
Breakpoint == 768

Ticks(ms) == ms \div TickMs

\* localStorage.getItem of a key that was never set
NULL == "<null>"

\* the data-tab values that are wired to a content region
TabNames == {"tree", "recent"}
\* viewport widths around the breakpoint
Widths == {Breakpoint, Breakpoint + 1}

\* data.metadata of a document that has no such key
UNDEFINED == "<undefined>"

VARIABLES
    layout,         \* which elements the loaded page contains
    storage,        \* localStorage[STORAGE_KEY], NULL when absent
    dom,            \* class markers, styles and values of the page's elements
    timers,         \* pending setTimeout callbacks: a bag of timer entries
    innerWidth,     \* window.innerWidth
    fetchState,     \* the fetch of search-index.json: NoFetch, Pending or its response
    searchIndex,    \* NULL or the name of the data set the index was built from
    searchMetadata, \* NULL, UNDEFINED or the name of the data set it came from
    uncaught,       \* a task of this page ended with an uncaught exception
    last,           \* the task the event loop ran last (history)
    hist            \* the input events and search executions so far (history)

searchVars == <<fetchState, searchIndex, searchMetadata, uncaught>>
vars == <<layout, storage, dom, timers, innerWidth, fetchState, searchIndex,
          searchMetadata, uncaught, last, hist>>

\* ------------------------------------------------------------ page layouts
FullPage ==
    [navTabs |-> TabNames, treeSection |-> TRUE, recentSection |-> TRUE,
     menuBtn |-> TRUE, sidebar |-> TRUE, sidebarOverlay |-> TRUE,
     searchBtn |-> TRUE, searchOverlay |-> TRUE, searchClose |-> TRUE,
     searchInput |-> TRUE, searchResults |-> TRUE, bottomNavSearch |-> TRUE]

\* the pages of the site: the full page and the pages that lack one of
\* the elements a setup routine looks for
SidebarLayouts ==
    { FullPage,
      [FullPage EXCEPT !.navTabs = {}],
      [FullPage EXCEPT !.recentSection = FALSE],
      [FullPage EXCEPT !.sidebarOverlay = FALSE],
      [FullPage EXCEPT !.menuBtn = FALSE] }

SearchLayouts ==
    { FullPage,
      [FullPage EXCEPT !.searchBtn = FALSE],
      [FullPage EXCEPT !.searchClose = FALSE],
      [FullPage EXCEPT !.searchResults = FALSE],
      [FullPage EXCEPT !.bottomNavSearch = FALSE] }

Layouts == SidebarLayouts \cup SearchLayouts

\* ------------------------------------------------------------------ timers
\* A pending callback: cb names the callback, rem the ticks until it is due,
\* cur whether the handle variable of its controller (resizeTimer,
\* debounceTimer) still holds its id.  timers maps an entry to the number of
\* pending callbacks that look like it.
TimerCbs == {"linkClose", "resize", "search", "focus"}
MaxDelayTicks == Ticks(DebounceDelay)
TimerEntries == [cb : TimerCbs, rem : 0..MaxDelayTicks, cur : BOOLEAN]

NoTimers == [e \in TimerEntries |-> 0]

RECURSIVE SumOver(_, _)
SumOver(f, S) ==
    IF S = {} THEN 0
    ELSE LET x == CHOOSE y \in S : TRUE IN f[x] + SumOver(f, S \ {x})

\* number of pending callbacks of kind cb
pendingCount(ts, cb) == SumOver(ts, {e \in TimerEntries : e.cb = cb})

\* setTimeout(cb, ms) whose id is not kept
setTimeout(ts, cb, ms) ==
    LET e == [cb |-> cb, rem |-> Ticks(ms), cur |-> FALSE]
    IN  [ts EXCEPT ![e] = @ + 1]

\* a handler that does not cancel the callback it scheduled before
clearTimeoutNoop(ts, cb) == ts

\* a clearTimeout that is given the handle of the other controller
clearTimeoutWrongHandle(ts, cb) ==
    [e \in TimerEntries |-> IF e.cb # cb /\ e.cur THEN 0 ELSE ts[e]]

\* clearTimeout(handle): cancels the callback whose id the handle holds
clearTimeout(ts, cb) ==
    [e \in TimerEntries |-> IF e.cb = cb /\ e.cur THEN 0 ELSE ts[e]]

\* handle = setTimeout(cb, ms): the handle forgets the id it held
setHandle(ts, cb, ms) ==
    LET new == [cb |-> cb, rem |-> Ticks(ms), cur |-> TRUE]
        old(e) == [e EXCEPT !.cur = TRUE]
    IN  [e \in TimerEntries |->
            IF e.cb # cb THEN ts[e]
            ELSE IF e.cur THEN (IF e = new THEN 1 ELSE 0)
            ELSE ts[e] + ts[old(e)]]

\* the callback e has fired and is no longer pending
removeTimer(ts, e) == [ts EXCEPT ![e] = @ - 1]

\* one tick passes: every callback that is not yet due comes one tick closer
tickTimers(ts) ==
    [e \in TimerEntries |->
        IF e.rem = 0 THEN ts[e] + ts[[e EXCEPT !.rem = 1]]
        ELSE IF e.rem < MaxDelayTicks THEN ts[[e EXCEPT !.rem = e.rem + 1]]
        ELSE 0]

\* --------------------------------------------------------------------- DOM
\* The page as the server sends it: the first tab button carries 'active',
\* no element has an inline display style, the menu and the overlay are closed.
InitialDom(L) ==
    [tabActive       |-> L.navTabs \cap {"tree"},
     treeDisplay     |-> "",
     recentDisplay   |-> "",
     menuBtnActive   |-> FALSE,
     sidebarOpen     |-> FALSE,
     sbOverlayActive |-> FALSE,
     bodyMenuOpen    |-> FALSE,
     searchActive    |-> FALSE,
     inputValue      |-> <<>>,
     inputFocused    |-> FALSE,
     resultsHTML     |-> <<>>]

\* ------------------------------------------------------------ sidebar tabs
\* the guard of setupSidebarTabs: the controller is set up on this page
TabsReady(L) == L.navTabs # {} /\ L.treeSection /\ L.recentSection

\* the label of a tab button instead of its data-tab attribute
datasetTabLabel(tab) == IF tab = "tree" THEN "Browse" ELSE "Recent"

\* tab.dataset.tab of a tab button
datasetTab(tab) == tab

\* switchTab without tabs.forEach(t => t.classList.remove('active'))
switchTabKeepsActive(d, L, tabName) ==
    [d EXCEPT
        !.tabActive     = IF tabName \in L.navTabs THEN @ \cup {tabName} ELSE @,
        !.treeDisplay   = IF tabName = "tree" THEN "block" ELSE "none",
        !.recentDisplay = IF tabName = "recent" THEN "block" ELSE "none"]

switchTab(d, L, tabName) ==
    [d EXCEPT
        !.tabActive     = IF tabName \in L.navTabs THEN {tabName} ELSE {},
        !.treeDisplay   = IF tabName = "tree" THEN "block" ELSE "none",
        !.recentDisplay = IF tabName = "recent" THEN "block" ELSE "none"]

\* a restore that does not read the storage
savedTabDefaultOnly(st) == "tree"

\* localStorage.getItem(STORAGE_KEY) || 'tree'
savedTab(st) == IF st = NULL \/ st = "" THEN "tree" ELSE st

setupSidebarTabs(d, L, st) ==
    IF ~TabsReady(L) THEN d ELSE switchTab(d, L, savedTab(st))

\* ------------------------------------------------------------- mobile menu
\* the guard of setupMobileMenu
MenuReady(L) == L.menuBtn /\ L.sidebar

\* openMenu without menuBtn.classList.add('active')
openMenuKeepsBtn(d, L) ==
    [d EXCEPT
        !.sidebarOpen     = TRUE,
        !.sbOverlayActive = IF L.sidebarOverlay THEN TRUE ELSE @,
        !.bodyMenuOpen    = TRUE]

openMenu(d, L) ==
    [d EXCEPT
        !.menuBtnActive   = TRUE,
        !.sidebarOpen     = TRUE,
        !.sbOverlayActive = IF L.sidebarOverlay THEN TRUE ELSE @,
        !.bodyMenuOpen    = TRUE]

\* closeMenu without sidebar.classList.remove('open')
closeMenuKeepsSidebar(d, L) ==
    [d EXCEPT
        !.menuBtnActive   = FALSE,
        !.sbOverlayActive = IF L.sidebarOverlay THEN FALSE ELSE @,
        !.bodyMenuOpen    = FALSE]

\* closeMenu without document.body.classList.remove('menu-open')
closeMenuKeepsBody(d, L) ==
    [d EXCEPT
        !.menuBtnActive   = FALSE,
        !.sidebarOpen     = FALSE,
        !.sbOverlayActive = IF L.sidebarOverlay THEN FALSE ELSE @]

closeMenu(d, L) ==
    [d EXCEPT
        !.menuBtnActive   = FALSE,
        !.sidebarOpen     = FALSE,
        !.sbOverlayActive = IF L.sidebarOverlay THEN FALSE ELSE @,
        !.bodyMenuOpen    = FALSE]

toggleMenu(d, L) ==
    IF d.sidebarOpen THEN closeMenu(d, L) ELSE openMenu(d, L)

\* a keydown handler that toggles the menu on Escape
menuKeydownToggles(d, L, key) ==
    IF key = "Escape" THEN toggleMenu(d, L) ELSE d

\* the keydown handler of the menu controller
menuKeydown(d, L, key) ==
    IF key = "Escape" /\ d.sidebarOpen THEN closeMenu(d, L) ELSE d

\* a resize callback that takes the breakpoint itself for a desktop width
resizeCallbackAtBreakpoint(d, L, w) ==
    IF w >= Breakpoint /\ d.sidebarOpen THEN closeMenu(d, L) ELSE d

\* the debounced resize callback
resizeCallback(d, L, w) ==
    IF w > Breakpoint /\ d.sidebarOpen THEN closeMenu(d, L) ELSE d

\* ----------------------------------------------------------------- strings
\* A string is the sequence of its characters.
Str1(a) == <<a>>
Whitespace == {" "}

RECURSIVE trimStart(_)
trimStart(v) ==
    IF v # <<>> /\ Head(v) \in Whitespace THEN trimStart(Tail(v)) ELSE v

RECURSIVE trimEnd(_)
trimEnd(v) ==
    IF v # <<>> /\ v[Len(v)] \in Whitespace
    THEN trimEnd(SubSeq(v, 1, Len(v) - 1)) ELSE v

\* String.prototype.trim
trim(v) == trimEnd(trimStart(v))

\* div.textContent = text; return div.innerHTML
RECURSIVE escapeHtml(_)
escapeHtml(text) ==
    IF text = <<>> THEN <<>>
    ELSE (CASE Head(text) = "<" -> <<"&", "l", "t", ";">>
            [] Head(text) = ">" -> <<"&", "g", "t", ";">>
            [] Head(text) = "&" -> <<"&", "a", "m", "p", ";">>
            [] OTHER -> <<Head(text)>>) \o escapeHtml(Tail(text))

\* the texts the user leaves in the search input
InputValues ==
    { <<>>, <<" ">>, <<" ", "m", " ">>, <<"e">>, <<"x">>, <<"m", ":", "e">> }

\* ------------------------------------------------------- search-index.json
\* number of documents of the site
NumDocs == 17
DocIds == 1..NumDocs
\* the document whose metadata entry is missing (stale index)
StaleDoc == 2

\* the words of a document: documents 1 and 2 hold the word "me", all "e"
Tokens(id) == IF id <= 2 THEN {<<"m", "e">>, <<"e">>} ELSE {<<"e">>}

Meta(id) ==
    [title |-> IF id = 1 THEN <<"m", "e">> ELSE <<"<", "e", ">">>,
     path  |-> id,
     tags  |-> IF id = 1 THEN <<"x">> ELSE <<>>]

\* the bodies the server answers with: a well-formed document set, one
\* without the documents array and one without the metadata object
DataSets == {"good", "noDocuments", "noMetadata"}

\* data.metadata
dataMetadata(ds) == IF ds = "noMetadata" THEN UNDEFINED ELSE ds
\* the identifiers that searchMetadata has an entry for
hasMeta(meta, id) == meta \in DataSets /\ id \in DocIds /\ id # StaleDoc

\* no fetch was issued on this page
NoFetch == [ok |-> FALSE, body |-> "none"]
\* the fetch has not settled
Pending == [ok |-> FALSE, body |-> "pending"]

\* the answers to fetch(baseUrl + '/search-index.json')
Responses ==
    { [ok |-> FALSE, body |-> NULL], [ok |-> TRUE, body |-> "malformed"] }
    \cup { [ok |-> TRUE, body |-> ds] : ds \in DataSets }

\* ---------------------------------------------------------- the lunr index
RECURSIVE split(_, _, _)
split(q, cur, acc) ==
    IF q = <<>> THEN (IF cur = <<>> THEN acc ELSE Append(acc, cur))
    ELSE IF Head(q) \in Whitespace
         THEN split(Tail(q), <<>>, IF cur = <<>> THEN acc ELSE Append(acc, cur))
         ELSE split(Tail(q), Append(cur, Head(q)), acc)

\* the terms of a query
terms(q) == split(q, <<>>, <<>>)

isPrefix(p, w) == Len(p) <= Len(w) /\ SubSeq(w, 1, Len(p)) = p

\* the term matches the word: exactly, or as a prefix when it ends in '*'
termMatches(t, w) ==
    IF t[Len(t)] = "*" THEN isPrefix(SubSeq(t, 1, Len(t) - 1), w) ELSE t = w

\* the query names a field, and the index has no field of that name
queryThrows(q) ==
    \E i \in 1..Len(terms(q)) : \E j \in 1..Len(terms(q)[i]) : terms(q)[i][j] = ":"

RECURSIVE ranked(_, _)
ranked(S, from) ==
    IF from > NumDocs THEN <<>>
    ELSE (IF from \in S THEN <<from>> ELSE <<>>) \o ranked(S, from + 1)

\* searchIndex.search(q): the matching documents in rank order
lunrSearch(q) ==
    ranked({id \in DocIds : \E i \in 1..Len(terms(q)) :
                \E w \in Tokens(id) : termMatches(terms(q)[i], w)}, 1)

\* lunr(function() { ... data.documents.forEach(...) }) throws
buildThrows(ds) == ds = "noDocuments"

\* ----------------------------------------------------------- mobile search
\* the guard of setupMobileSearch
SearchReady(L) == L.searchBtn /\ L.searchOverlay
\* the guard of the index load and of the input handler
InputReady(L) == SearchReady(L) /\ L.searchInput /\ L.searchResults
\* the guard of setupBottomNavSearch
BottomNavReady(L) == L.bottomNavSearch /\ L.searchOverlay

\* openSearch without its focus timer; also the bottom-nav click handler
openSearch(d) ==
    [d EXCEPT !.searchActive = TRUE, !.bodyMenuOpen = TRUE]

\* closeSearch without searchInput.value = ''
closeSearchKeepsInput(d, L) ==
    [d EXCEPT
        !.searchActive = FALSE,
        !.bodyMenuOpen = FALSE,
        !.resultsHTML  = IF L.searchResults THEN <<>> ELSE @]

\* closeSearch without searchResults.innerHTML = ''
closeSearchKeepsResults(d, L) ==
    [d EXCEPT
        !.searchActive = FALSE,
        !.bodyMenuOpen = FALSE,
        !.inputValue   = IF L.searchInput THEN <<>> ELSE @]

closeSearch(d, L) ==
    [d EXCEPT
        !.searchActive = FALSE,
        !.bodyMenuOpen = FALSE,
        !.inputValue   = IF L.searchInput THEN <<>> ELSE @,
        !.resultsHTML  = IF L.searchResults THEN <<>> ELSE @]

\* the keydown handler of the search controller
searchKeydown(d, L, key) ==
    IF key = "Escape" /\ d.searchActive THEN closeSearch(d, L) ELSE d

\* a slice that keeps one result too many
MaxShownOffByOne == 15 + 1

\* results.slice(0, 15)
MaxShown == 15
NoResultsFound == <<[message |-> "No results found"]>>

Min(a, b) == IF a < b THEN a ELSE b

\* one entry of the results area
renderResult(id) ==
    [href  |-> <<"baseUrl", "/", Meta(id).path>>,
     title |-> escapeHtml(Meta(id).title),
     tags  |-> Meta(id).tags]

RECURSIVE renderResults(_, _)
renderResults(results, meta) ==
    IF results = <<>> THEN <<>>
    ELSE (IF hasMeta(meta, Head(results)) THEN <<renderResult(Head(results))>>
          ELSE <<>>) \o renderResults(Tail(results), meta)

\* a try block without the retry with a trailing wildcard
trySearchExactOnly(query) ==
    IF queryThrows(query) THEN [results |-> <<>>, calls |-> <<query>>]
    ELSE [results |-> lunrSearch(query), calls |-> <<query>>]

\* the try block of performMobileSearch: the result list and the queries
\* that were passed to searchIndex.search
trySearch(query) ==
    IF queryThrows(query) THEN [results |-> <<>>, calls |-> <<query>>]
    ELSE IF lunrSearch(query) # <<>>
         THEN [results |-> lunrSearch(query), calls |-> <<query>>]
    ELSE IF queryThrows(query \o Str1("*"))
         THEN [results |-> <<>>, calls |-> <<query, query \o Str1("*")>>]
    ELSE [results |-> lunrSearch(query \o Str1("*")),
          calls   |-> <<query, query \o Str1("*")>>]

\* performMobileSearch with the guard if (!query): a search on the unset
\* index throws inside the try block and counts as zero results
performMobileSearchNoIndexGuard(d, index, meta) ==
    LET query == trim(d.inputValue) IN
    IF query = <<>>
    THEN [dom |-> [d EXCEPT !.resultsHTML = <<>>], query |-> query,
          calls |-> <<>>, results |-> <<>>, threw |-> FALSE]
    ELSE [dom |-> [d EXCEPT !.resultsHTML = NoResultsFound], query |-> query,
          calls |-> <<>>, results |-> <<>>, threw |-> FALSE]

\* performMobileSearch that reads searchInput.value without trim()
performMobileSearchNoTrim(d, index, meta) ==
    LET query == d.inputValue
        r     == trySearch(query)
        shown == SubSeq(r.results, 1, Min(MaxShown, Len(r.results)))
    IN  IF query = <<>> \/ index = NULL
        THEN [dom |-> [d EXCEPT !.resultsHTML = <<>>], query |-> query,
              calls |-> <<>>, results |-> <<>>, threw |-> FALSE]
        ELSE IF r.results = <<>>
        THEN [dom |-> [d EXCEPT !.resultsHTML = NoResultsFound], query |-> query,
              calls |-> r.calls, results |-> r.results, threw |-> FALSE]
        ELSE IF meta \notin DataSets
        THEN [dom |-> d, query |-> query, calls |-> r.calls,
              results |-> r.results, threw |-> TRUE]
        ELSE [dom |-> [d EXCEPT !.resultsHTML = renderResults(shown, meta)],
              query |-> query, calls |-> r.calls,
              results |-> r.results, threw |-> FALSE]

\* performMobileSearch(): the DOM it leaves, the queries it passed to the
\* index, whether it ended with an exception
performMobileSearch(d, index, meta) ==
    LET query == trim(d.inputValue)
        r     == trySearch(query)
        shown == SubSeq(r.results, 1, Min(MaxShown, Len(r.results)))
    IN  IF query = <<>> \/ index = NULL
        THEN [dom |-> [d EXCEPT !.resultsHTML = <<>>], query |-> query,
              calls |-> <<>>, results |-> <<>>, threw |-> FALSE]
        ELSE IF r.results = <<>>
        THEN [dom |-> [d EXCEPT !.resultsHTML = NoResultsFound], query |-> query,
              calls |-> r.calls, results |-> r.results, threw |-> FALSE]
        ELSE IF meta \notin DataSets
        THEN [dom |-> d, query |-> query, calls |-> r.calls,
              results |-> r.results, threw |-> TRUE]
        ELSE [dom |-> [d EXCEPT !.resultsHTML = renderResults(shown, meta)],
              query |-> query, calls |-> r.calls,
              results |-> r.results, threw |-> FALSE]

\* the .then/.catch chain of the index load: the closure variables it leaves
loadIndex(resp, index, meta) ==
    IF ~resp.ok \/ resp.body \notin DataSets
    THEN [searchIndex |-> index, searchMetadata |-> meta]
    ELSE IF buildThrows(resp.body)
    THEN [searchIndex |-> index, searchMetadata |-> dataMetadata(resp.body)]
    ELSE [searchIndex |-> resp.body, searchMetadata |-> dataMetadata(resp.body)]

\* -------------------------------------------------------------- page load
\* init(): the setup routines on a freshly parsed page (the menu, search and
\* bottom-nav routines register handlers and change no element)
init(L, st) == setupSidebarTabs(InitialDom(L), L, st)

Ev(name, arg) == [ev |-> name, arg |-> arg]

\* ticks counted since the last input event, no further than the debounce delay
MaxElapsed == Ticks(DebounceDelay)

\* hist: typed - an input event was handled on this page; burst - the
\* length of the run of input events that each came less than the debounce
\* delay after the one before, up to the last one (2 stands for more);
\* elapsed - the ticks since the last input event; runs - the executions of
\* performMobileSearch since then (2 stands for more); ranAt, query, calls -
\* the value of elapsed at the last execution, the query it read, the
\* queries it passed to the index and the result list it went on with;
\* closed - closeSearch has run since the last input event.
\* no input event and no search execution on this page so far
NoHist ==
    [typed |-> FALSE, burst |-> 0, elapsed |-> MaxElapsed, runs |-> 0,
     ranAt |-> MaxElapsed, query |-> <<>>, calls |-> <<>>, results |-> <<>>,
     closed |-> FALSE]

\* the first visit of the site: nothing is stored yet
Init ==
    /\ layout \in Layouts
    /\ storage = NULL
    /\ innerWidth \in Widths
    /\ dom = init(layout, storage)
    /\ timers = NoTimers
    /\ fetchState = IF InputReady(layout) THEN Pending ELSE NoFetch
    /\ searchIndex = NULL
    /\ searchMetadata = NULL
    /\ uncaught = FALSE
    /\ last = Ev("load", NULL)
    /\ hist = NoHist

\* navigation or reload: a new page is parsed and init() runs; the storage
\* and the window survive, the timers, closures and DOM of the old page do not
LoadPage(L) ==
    /\ layout' = L
    /\ dom' = init(L, storage)
    /\ fetchState' = IF InputReady(L) THEN Pending ELSE NoFetch
    /\ timers' = NoTimers
    /\ searchIndex' = NULL
    /\ searchMetadata' = NULL
    /\ uncaught' = FALSE
    /\ last' = Ev("load", NULL)
    /\ hist' = NoHist
    /\ UNCHANGED <<storage, innerWidth>>

\* ------------------------------------------------------- sidebar tab events
\* click on the tab button tab
TabClick(tab) ==
    /\ TabsReady(layout)
    /\ tab \in layout.navTabs
    /\ LET tabName == datasetTab(tab) IN
          /\ dom' = switchTab(dom, layout, tabName)
          /\ storage' = tabName
          /\ last' = Ev("tabClick", tabName)
    /\ UNCHANGED <<layout, timers, innerWidth, searchVars, hist>>

\* ------------------------------------------------------- mobile menu events
\* click on the menu button
MenuBtnClick ==
    /\ MenuReady(layout)
    /\ dom' = toggleMenu(dom, layout)
    /\ last' = Ev("menuBtnClick", IF dom.sidebarOpen THEN "close" ELSE "open")
    /\ UNCHANGED <<layout, storage, timers, innerWidth, searchVars, hist>>

\* click on the sidebar overlay, which is shown while it is active
OverlayClick ==
    /\ MenuReady(layout) /\ layout.sidebarOverlay
    /\ dom.sbOverlayActive
    /\ dom' = closeMenu(dom, layout)
    /\ last' = Ev("overlayClick", "close")
    /\ UNCHANGED <<layout, storage, timers, innerWidth, searchVars, hist>>

\* click on a link of the sidebar
LinkClick ==
    /\ MenuReady(layout)
    /\ pendingCount(timers, "linkClose") < MaxLinkTimers
    /\ timers' = setTimeout(timers, "linkClose", LinkCloseDelay)
    /\ last' = Ev("linkClick", NULL)
    /\ UNCHANGED <<layout, storage, dom, innerWidth, searchVars, hist>>

\* the timer of a link click fires
LinkCloseFire ==
    /\ \E e \in TimerEntries :
          /\ e.cb = "linkClose" /\ e.rem = 0 /\ timers[e] > 0
          /\ timers' = removeTimer(timers, e)
    /\ dom' = closeMenu(dom, layout)
    /\ last' = Ev("linkCloseFire", IF dom.sidebarOpen THEN "close" ELSE NULL)
    /\ UNCHANGED <<layout, storage, innerWidth, searchVars, hist>>

\* the window is resized to width w
Resize(w) ==
    /\ innerWidth' = w
    /\ IF MenuReady(layout)
       THEN timers' = setHandle(clearTimeout(timers, "resize"), "resize", ResizeDelay)
       ELSE timers' = timers
    /\ last' = Ev("resize", IF pendingCount(timers, "resize") > 0
                            THEN "replaced" ELSE NULL)
    /\ UNCHANGED <<layout, storage, dom, searchVars, hist>>

\* the debounced resize callback fires
ResizeFire ==
    /\ \E e \in TimerEntries :
          /\ e.cb = "resize" /\ e.rem = 0 /\ timers[e] > 0
          /\ timers' = removeTimer(timers, e)
    /\ dom' = resizeCallback(dom, layout, innerWidth)
    /\ last' = Ev("resizeFire",
                  IF innerWidth > Breakpoint /\ dom.sidebarOpen THEN "close" ELSE NULL)
    /\ UNCHANGED <<layout, storage, innerWidth, searchVars, hist>>

\* a key is pressed: the keydown handlers of the menu controller and of the
\* search controller run in the order they were registered
Keydown(key) ==
    /\ LET d1 == IF MenuReady(layout) THEN menuKeydown(dom, layout, key) ELSE dom
           d2 == IF SearchReady(layout) THEN searchKeydown(d1, layout, key) ELSE d1
       IN  dom' = d2
    /\ last' = [ev |-> "keydown", arg |-> key,
                menuWasOpen |-> dom.sidebarOpen, searchWasActive |-> dom.searchActive]
    /\ hist' = IF SearchReady(layout) /\ key = "Escape" /\ dom.searchActive
               THEN [hist EXCEPT !.closed = TRUE] ELSE hist
    /\ UNCHANGED <<layout, storage, timers, innerWidth, searchVars>>

\* ----------------------------------------------------- mobile search events
\* click on the mobile search button
SearchBtnClick ==
    /\ SearchReady(layout)
    /\ pendingCount(timers, "focus") < MaxFocusTimers
    /\ dom' = openSearch(dom)
    /\ timers' = setTimeout(timers, "focus", FocusDelay)
    /\ last' = Ev("searchBtnClick", "open")
    /\ UNCHANGED <<layout, storage, innerWidth, searchVars, hist>>

\* click on the bottom-nav search link
BottomNavClick ==
    /\ BottomNavReady(layout)
    /\ pendingCount(timers, "focus") < MaxFocusTimers
    /\ dom' = openSearch(dom)
    /\ timers' = setTimeout(timers, "focus", FocusDelay)
    /\ last' = Ev("bottomNavClick", "open")
    /\ UNCHANGED <<layout, storage, innerWidth, searchVars, hist>>

\* a focus timer fires
FocusFire ==
    /\ \E e \in TimerEntries :
          /\ e.cb = "focus" /\ e.rem = 0 /\ timers[e] > 0
          /\ timers' = removeTimer(timers, e)
    /\ dom' = [dom EXCEPT !.inputFocused = IF layout.searchInput THEN TRUE ELSE @]
    /\ last' = Ev("focusFire", NULL)
    /\ UNCHANGED <<layout, storage, innerWidth, searchVars, hist>>

\* click on the close button of the search overlay, which is shown with it
SearchCloseClick ==
    /\ SearchReady(layout) /\ layout.searchClose
    /\ dom.searchActive
    /\ dom' = closeSearch(dom, layout)
    /\ last' = Ev("searchCloseClick", "close")
    /\ hist' = [hist EXCEPT !.closed = TRUE]
    /\ UNCHANGED <<layout, storage, timers, innerWidth, searchVars>>

\* the user changes the text of the search input to v
Input(v) ==
    /\ layout.searchInput /\ dom.searchActive
    /\ v # dom.inputValue
    /\ dom' = [dom EXCEPT !.inputValue = v]
    /\ IF InputReady(layout)
       THEN /\ timers' = setHandle(clearTimeout(timers, "search"), "search", DebounceDelay)
            /\ hist' = [NoHist EXCEPT
                          !.typed = TRUE, !.elapsed = 0,
                          !.burst = IF hist.typed /\ hist.elapsed < MaxElapsed
                                    THEN Min(hist.burst + 1, 2) ELSE 1]
       ELSE timers' = timers /\ hist' = [hist EXCEPT !.closed = FALSE]
    /\ last' = Ev("input", IF pendingCount(timers, "search") > 0
                           THEN "replaced" ELSE NULL)
    /\ UNCHANGED <<layout, storage, innerWidth, searchVars>>

\* the debounce timer fires: performMobileSearch()
DebounceFire ==
    /\ \E e \in TimerEntries :
          /\ e.cb = "search" /\ e.rem = 0 /\ timers[e] > 0
          /\ timers' = removeTimer(timers, e)
    /\ LET r == performMobileSearch(dom, searchIndex, searchMetadata) IN
          /\ dom' = r.dom
          /\ uncaught' = (uncaught \/ r.threw)
          /\ hist' = [hist EXCEPT !.runs = Min(@ + 1, 2), !.ranAt = hist.elapsed,
                                  !.query = r.query, !.calls = r.calls,
                                  !.results = r.results]
          /\ last' = Ev("performMobileSearch", NULL)
    /\ UNCHANGED <<layout, storage, innerWidth, fetchState, searchIndex, searchMetadata>>

\* the fetch of the index settles with the response resp
FetchSettle(resp) ==
    /\ fetchState = Pending
    /\ fetchState' = resp
    /\ LET r == loadIndex(resp, searchIndex, searchMetadata) IN
          /\ searchIndex' = r.searchIndex
          /\ searchMetadata' = r.searchMetadata
    /\ last' = Ev("fetchSettle", NULL)
    /\ UNCHANGED <<layout, storage, dom, timers, innerWidth, uncaught, hist>>

\* -------------------------------------------------------------------- time
\* a tick of the clock
Tick ==
    /\ \/ \E e \in TimerEntries : e.rem > 0 /\ timers[e] > 0
       \/ hist.elapsed < MaxElapsed
    /\ timers' = tickTimers(timers)
    /\ hist' = [hist EXCEPT !.elapsed = Min(@ + 1, MaxElapsed)]
    /\ last' = Ev("tick", NULL)
    /\ UNCHANGED <<layout, storage, dom, innerWidth, searchVars>>

\* ---------------------------------------------------------- specifications
Keys == {"Escape", "Enter"}

Next ==
    \/ \E L \in Layouts : LoadPage(L)
    \/ \E tab \in TabNames : TabClick(tab)
    \/ MenuBtnClick
    \/ OverlayClick
    \/ LinkClick
    \/ LinkCloseFire
    \/ \E w \in Widths : Resize(w)
    \/ ResizeFire
    \/ \E key \in Keys : Keydown(key)
    \/ SearchBtnClick
    \/ BottomNavClick
    \/ FocusFire
    \/ SearchCloseClick
    \/ \E v \in InputValues : Input(v)
    \/ DebounceFire
    \/ \E resp \in Responses : FetchSettle(resp)
    \/ Tick

\* the whole page
Spec == Init /\ [][Next]_vars

\* the sidebar: the tabs and the mobile menu on the pages that differ in
\* the sidebar's elements, the search overlay left alone
InitSidebar == Init /\ layout \in SidebarLayouts

NextSidebar ==
    \/ \E L \in SidebarLayouts : LoadPage(L)
    \/ \E tab \in TabNames : TabClick(tab)
    \/ MenuBtnClick
    \/ OverlayClick
    \/ LinkClick
    \/ LinkCloseFire
    \/ \E w \in Widths : Resize(w)
    \/ ResizeFire
    \/ \E key \in Keys : Keydown(key)
    \/ Tick

SpecSidebar == InitSidebar /\ [][NextSidebar]_vars

\* the search overlay on the pages that differ in its elements, the sidebar
\* left alone (the search controller does not read the width)
InitSearch == Init /\ layout \in SearchLayouts /\ innerWidth = Breakpoint

NextSearch ==
    \/ \E L \in SearchLayouts : LoadPage(L)
    \/ \E key \in Keys : Keydown(key)
    \/ SearchBtnClick
    \/ BottomNavClick
    \/ FocusFire
    \/ SearchCloseClick
    \/ \E v \in InputValues : Input(v)
    \/ DebounceFire
    \/ \E resp \in Responses : FetchSettle(resp)
    \/ Tick

SpecSearch == InitSearch /\ [][NextSearch]_vars

\* the two debounced handlers of the full page: the resize-driven close of
\* the menu and the input-driven search
InitTimers == Init /\ layout = FullPage

NextTimers ==
    \/ LoadPage(FullPage)
    \/ MenuBtnClick
    \/ \E w \in Widths : Resize(w)
    \/ ResizeFire
    \/ SearchBtnClick
    \/ FocusFire
    \/ \E v \in InputValues : Input(v)
    \/ DebounceFire
    \/ Tick

SpecTimers == InitTimers /\ [][NextTimers]_vars

\* the writers of the body's 'menu-open' marker: the events of the menu, of
\* the search overlay and of the bottom-nav link, without typing and
\* without the index load
OverlayLayouts ==
    { FullPage,
      [FullPage EXCEPT !.sidebarOverlay = FALSE],
      [FullPage EXCEPT !.searchBtn = FALSE] }

InitOverlays == Init /\ layout \in OverlayLayouts

NextOverlays ==
    \/ \E L \in OverlayLayouts : LoadPage(L)
    \/ MenuBtnClick
    \/ OverlayClick
    \/ LinkClick
    \/ LinkCloseFire
    \/ \E w \in Widths : Resize(w)
    \/ ResizeFire
    \/ \E key \in Keys : Keydown(key)
    \/ SearchBtnClick
    \/ BottomNavClick
    \/ FocusFire
    \/ SearchCloseClick
    \/ Tick

SpecOverlays == InitOverlays /\ [][NextOverlays]_vars

\* ------------------------------------------------------------- properties
\* the task that ran last called closeMenu
CalledCloseMenu ==
    \/ last.ev \in {"overlayClick", "linkCloseFire"}
    \/ last.ev \in {"menuBtnClick", "resizeFire"} /\ last.arg = "close"
    \/ /\ last.ev = "keydown" /\ last.arg = "Escape"
       /\ last.menuWasOpen /\ MenuReady(layout)

\* exactly one of the two regions is displayed, the other has display none
OneRegionShown(d) ==
    \/ d.treeDisplay = "block" /\ d.recentDisplay = "none"
    \/ d.treeDisplay = "none" /\ d.recentDisplay = "block"

\* C1: on a page where the tab controller is set up, after the restore on
\* load and after every tab click exactly one tab button is active and
\* exactly one region is displayed, the other having display none.
C1_OneActiveOneShown ==
    (TabsReady(layout) /\ last.ev \in {"load", "tabClick"})
        => Cardinality(dom.tabActive) = 1 /\ OneRegionShown(dom)

C1_Witness ==
    /\ last.ev = "tabClick" /\ last.arg = "recent"
    /\ dom.tabActive = {"recent"}
    /\ dom.recentDisplay = "block" /\ dom.treeDisplay = "none"

\* C2: after a click on the tab button X the stored preference is X; a page
\* whose tab controller is set up shows the stored tab, hence a load after
\* the click shows X; with nothing stored the load shows the tree region and
\* hides the recent region.
C2_RoundTrip ==
    /\ last.ev = "tabClick" => storage = last.arg
    /\ (TabsReady(layout) /\ storage \in TabNames) =>
          /\ dom.tabActive = {storage}
          /\ dom.treeDisplay = (IF storage = "tree" THEN "block" ELSE "none")
          /\ dom.recentDisplay = (IF storage = "recent" THEN "block" ELSE "none")
    /\ (TabsReady(layout) /\ storage = NULL) =>
          dom.treeDisplay = "block" /\ dom.recentDisplay = "none"

\* a load that follows a click on the recent tab (nothing is stored at the
\* first visit, so the stored value comes from a click)
C2_Witness ==
    /\ last.ev = "load" /\ TabsReady(layout)
    /\ storage = "recent"
    /\ dom.recentDisplay = "block" /\ dom.treeDisplay = "none"

\* C3: the stored value is absent or one of the strings 'tree' and 'recent'.
C3_StoredValue == storage \in {NULL, "tree", "recent"}

C3_Witness == last.ev = "tabClick" /\ storage = "recent"

\* C4: after a task that closed the menu the sidebar has no 'open' marker
\* and the body no 'menu-open' marker, and closeMenu run again changes nothing.
C4_CloseIdempotent ==
    CalledCloseMenu =>
        /\ ~dom.sidebarOpen
        /\ ~dom.bodyMenuOpen
        /\ closeMenu(dom, layout) = dom

\* the Escape key has closed a menu that was open
C4_Witness ==
    /\ last.ev = "keydown" /\ last.arg = "Escape" /\ last.menuWasOpen
    /\ MenuReady(layout) /\ ~dom.sidebarOpen /\ ~dom.bodyMenuOpen

\* C5: an Escape key press while the sidebar is not open leaves the markers
\* of the menu button, the sidebar and the sidebar overlay as they were.
C5_EscapeWhileClosed ==
    [][(Keydown("Escape") /\ ~dom.sidebarOpen) =>
          /\ dom'.sidebarOpen = dom.sidebarOpen
          /\ dom'.menuBtnActive = dom.menuBtnActive
          /\ dom'.sbOverlayActive = dom.sbOverlayActive]_vars

\* Escape was pressed on a page with the menu controller while the menu was closed
C5_Witness ==
    /\ last.ev = "keydown" /\ last.arg = "Escape" /\ ~last.menuWasOpen
    /\ MenuReady(layout) /\ ~dom.sidebarOpen /\ ~dom.menuBtnActive

\* the index load has failed: a non-success status, a body that does not
\* parse, or an index construction that throws
LoadFailed(f) ==
    f \in Responses /\ (~f.ok \/ f.body = "malformed" \/ buildThrows(f.body))

\* C6: performMobileSearch runs at most once after the last input event and
\* no sooner than the debounce delay after it (so never inside a burst of
\* events less than the delay apart); once the debounce callback is no
\* longer pending it has run exactly once; it reads the input value as it
\* is when it runs.
C6_DebounceOnce ==
    /\ hist.runs <= 1
    /\ hist.runs = 1 => hist.ranAt = MaxElapsed
    /\ hist.typed => (hist.runs = 1 <=> pendingCount(timers, "search") = 0)
    /\ last.ev = "performMobileSearch" => hist.query = trim(dom.inputValue)

\* the search has run once, for the final value, after a burst of input events
C6_Witness ==
    /\ last.ev = "performMobileSearch"
    /\ hist.burst = 2 /\ hist.runs = 1
    /\ hist.query = <<"e">> /\ dom.inputValue = <<"e">>

\* C7: each of the two debounced handlers has at most one callback pending;
\* after an input or resize event the pending callback is the one that the
\* event scheduled, with the full delay ahead.
C7_OnePendingPerTimer ==
    /\ pendingCount(timers, "search") <= 1
    /\ pendingCount(timers, "resize") <= 1
    /\ (last.ev = "input" /\ InputReady(layout)) =>
          timers[[cb |-> "search", rem |-> Ticks(DebounceDelay), cur |-> TRUE]] = 1
    /\ (last.ev = "resize" /\ MenuReady(layout)) =>
          timers[[cb |-> "resize", rem |-> Ticks(ResizeDelay), cur |-> TRUE]] = 1

\* a resize event has replaced a pending resize callback while the search
\* callback of a burst of input events is pending
C7_Witness ==
    /\ last.ev = "resize" /\ last.arg = "replaced"
    /\ pendingCount(timers, "resize") = 1
    /\ hist.burst = 2 /\ pendingCount(timers, "search") = 1

\* C8: the search index and the search metadata are both present or both
\* absent.
C8_BothOrNeither ==
    (searchIndex = NULL) <=> (searchMetadata \in {NULL, UNDEFINED})

\* C9: after a failed index load the index is unset, no task has ended with
\* an uncaught exception, and a search execution leaves the results area
\* empty without calling the index.
C9_FailedLoad ==
    LoadFailed(fetchState) =>
        /\ searchIndex = NULL
        /\ ~uncaught
        /\ last.ev = "performMobileSearch" =>
              dom.resultsHTML = <<>> /\ hist.calls = <<>>

\* a search for a non-empty query has run after the load failed
C9_Witness ==
    /\ LoadFailed(fetchState)
    /\ last.ev = "performMobileSearch" /\ hist.query = <<"e">>
    /\ dom.resultsHTML = <<>>

\* C10: a search execution on an empty or whitespace-only input value sets
\* the results area to empty and passes no query to the index.
C10_EmptyQuery ==
    (last.ev = "performMobileSearch" /\ trim(dom.inputValue) = <<>>) =>
        dom.resultsHTML = <<>> /\ hist.calls = <<>>

\* a search has run on a whitespace-only value with the index loaded
C10_Witness ==
    /\ last.ev = "performMobileSearch"
    /\ dom.inputValue = <<" ">> /\ searchIndex = "good"
    /\ dom.resultsHTML = <<>> /\ hist.calls = <<>>

\* the query with the wildcard suffix
Wild(q) == q \o <<"*">>

\* C11: for a non-empty trimmed query and a loaded index the result list is
\* search(q) when that is non-empty and search(q + '*') otherwise, the
\* second search being called once and only after a first search without
\* results; a search that throws gives the empty list.
C11_WildcardFallback ==
    (last.ev = "performMobileSearch" /\ hist.query # <<>> /\ searchIndex # NULL) =>
        LET q == hist.query IN
        IF queryThrows(q)
        THEN hist.results = <<>> /\ hist.calls = <<q>>
        ELSE IF lunrSearch(q) # <<>>
        THEN hist.results = lunrSearch(q) /\ hist.calls = <<q>>
        ELSE /\ hist.calls = <<q, Wild(q)>>
             /\ hist.results = (IF queryThrows(Wild(q)) THEN <<>>
                                ELSE lunrSearch(Wild(q)))

\* the query "m" has no exact match and the prefix search has found the
\* documents that hold "me"
C11_Witness ==
    /\ last.ev = "performMobileSearch" /\ searchIndex = "good"
    /\ hist.query = <<"m">>
    /\ hist.calls = <<(<<"m">>), (<<"m", "*">>)>>
    /\ hist.results = <<1, 2>>
    /\ Len(dom.resultsHTML) >= 1

\* the rendering of the result list of a search for the trimmed query q
\* with index and metadata loaded: nothing for the empty query, the message
\* for no result, else the entries of the first MaxShown results
Expected(q) ==
    IF queryThrows(q) THEN <<>>
    ELSE IF lunrSearch(q) # <<>> THEN lunrSearch(q)
    ELSE IF queryThrows(Wild(q)) THEN <<>>
    ELSE lunrSearch(Wild(q))

\* C12 as stated: a search execution for a non-empty query with the index
\* unset shows the message 'No results found'.
C12_UnavailableShowsMessage ==
    (last.ev = "performMobileSearch" /\ hist.query # <<>> /\ searchIndex = NULL)
        => dom.resultsHTML = NoResultsFound

\* C12 amended: a search execution for a non-empty query with the index
\* unset leaves the results area empty, without the message 'No results
\* found' and without a call of the index.
C12_UnavailableShowsNothing ==
    (last.ev = "performMobileSearch" /\ hist.query # <<>> /\ searchIndex = NULL)
        => dom.resultsHTML = <<>> /\ hist.calls = <<>>

\* a search for "x" has run while the index load was still pending
C12_Witness ==
    /\ last.ev = "performMobileSearch" /\ hist.query = <<"x">>
    /\ fetchState = Pending /\ searchIndex = NULL
    /\ dom.resultsHTML = <<>>

MenuClosed(d) ==
    ~d.menuBtnActive /\ ~d.sidebarOpen /\ ~d.sbOverlayActive

\* C14: the 'active' marker of the menu button, the 'open' marker of the
\* sidebar and, where the page has a sidebar overlay, its 'active' marker
\* are all set or all clear; a click on the menu button opens a closed menu
\* and closes an open one.
C14_MarkersAgree ==
    /\ dom.menuBtnActive = dom.sidebarOpen
    /\ layout.sidebarOverlay => dom.sbOverlayActive = dom.sidebarOpen
    /\ last.ev = "menuBtnClick" => (dom.sidebarOpen <=> last.arg = "open")

\* a click on the menu button has closed the open menu
C14_Witness ==
    /\ last.ev = "menuBtnClick" /\ last.arg = "close"
    /\ layout.sidebarOverlay /\ MenuClosed(dom)

\* C15: a resize event changes no element; the debounced callback closes
\* the menu when the width is above 768 and the sidebar is open as it
\* fires, and changes nothing otherwise.
C15_ResizeClose ==
    [][/\ (\E w \in Widths : Resize(w)) => dom' = dom
       /\ ResizeFire =>
             IF innerWidth > 768 /\ dom.sidebarOpen
             THEN MenuClosed(dom') /\ ~dom'.bodyMenuOpen
             ELSE dom' = dom]_vars

\* the callback of a burst of resize events has closed the open menu at a
\* width above the breakpoint
C15_Witness ==
    /\ last.ev = "resizeFire" /\ last.arg = "close"
    /\ innerWidth > 768 /\ MenuClosed(dom)

\* C16: a click on a sidebar link adds a callback that is due 100 ms later;
\* no task other than its own firing (and the unloading of the page) takes
\* a pending link-click callback away, and when it fires the menu is
\* closed, whether it was open or not.
C16_LinkCloseTimer ==
    [][/\ LinkClick =>
             LET e == [cb |-> "linkClose", rem |-> Ticks(100), cur |-> FALSE]
             IN  timers'[e] = timers[e] + 1
       /\ ~(LinkCloseFire \/ \E L \in Layouts : LoadPage(L)) =>
             pendingCount(timers', "linkClose") >= pendingCount(timers, "linkClose")
       /\ LinkCloseFire =>
             /\ pendingCount(timers', "linkClose") = pendingCount(timers, "linkClose") - 1
             /\ MenuClosed(dom') /\ ~dom'.bodyMenuOpen]_vars

\* a link-click callback has fired on an open menu and closed it
C16_Witness ==
    /\ last.ev = "linkCloseFire" /\ last.arg = "close"
    /\ MenuClosed(dom) /\ ~dom.bodyMenuOpen

\* the task that ran last called closeSearch
CalledCloseSearch ==
    \/ last.ev = "searchCloseClick"
    \/ /\ last.ev = "keydown" /\ last.arg = "Escape"
       /\ last.searchWasActive /\ SearchReady(layout)

\* C17: a task that closes the search overlay leaves it inactive; from then
\* until the next input event the input text and the results area are
\* empty, whatever timer fires and whether or not the index load settles.
C17_ClosedStaysEmpty ==
    /\ CalledCloseSearch => ~dom.searchActive
    /\ hist.closed => dom.inputValue = <<>> /\ dom.resultsHTML = <<>>

\* the overlay was closed while a debounce callback was pending; the
\* callback has run afterwards, with the index loaded
C17_Witness ==
    /\ hist.closed /\ hist.typed
    /\ last.ev = "performMobileSearch" /\ searchIndex = "good"
    /\ dom.resultsHTML = <<>> /\ ~dom.searchActive

\* C18: the body carries the 'menu-open' marker exactly when the sidebar is
\* open or the search overlay is active.
C18_BodyMarker ==
    dom.bodyMenuOpen <=> (dom.sidebarOpen \/ dom.searchActive)

\* what a search for the trimmed query q puts into the results area when
\* index and metadata are loaded
Shown(q, meta) ==
    IF q = <<>> THEN <<>>
    ELSE IF Expected(q) = <<>> THEN NoResultsFound
    ELSE renderResults(SubSeq(Expected(q), 1, Min(15, Len(Expected(q)))), meta)

\* the last search execution read a non-empty query and found the index unset
RanWithoutIndex ==
    hist.runs = 1 /\ hist.query # <<>> /\ hist.calls = <<>>

\* C19 as stated: whenever the index (with its metadata) is loaded and no
\* debounce callback is pending, the results area corresponds to the
\* trimmed input value.
C19_ResultsFollowInput ==
    (/\ searchIndex # NULL /\ searchMetadata \in DataSets
     /\ pendingCount(timers, "search") = 0) =>
        dom.resultsHTML = Shown(trim(dom.inputValue), searchMetadata)

\* C19 amended: the same, when the last search execution did not find the
\* index unset; a query that was executed before the index load completed
\* is not answered by the completion of the load: the results area is
\* empty until the next input event.
C19_ResultsFollowLastRun ==
    /\ (/\ searchIndex # NULL /\ searchMetadata \in DataSets
        /\ pendingCount(timers, "search") = 0 /\ ~RanWithoutIndex) =>
          dom.resultsHTML = Shown(trim(dom.inputValue), searchMetadata)
    /\ RanWithoutIndex => dom.resultsHTML = <<>>

\* the query "e" was executed before the index load completed; the load
\* has succeeded since and the results area is still empty
C19_Witness ==
    /\ RanWithoutIndex /\ hist.query = <<"e">> /\ dom.inputValue = <<"e">>
    /\ last.ev = "fetchSettle" /\ searchIndex = "good"
    /\ pendingCount(timers, "search") = 0
    /\ dom.resultsHTML = <<>>

\* C20: an Escape key press while the search overlay is active leaves the
\* overlay inactive and the body without the 'menu-open' marker.
C20_EscapeClosesOverlay ==
    (last.ev = "keydown" /\ last.arg = "Escape" /\ last.searchWasActive) =>
        ~dom.searchActive /\ ~dom.bodyMenuOpen

====
